---- MODULE Spec2Model ----
(***************************************************************************)
(* Model of the STA buffer-insertion visualizer, src/main.py.              *)
(*                                                                         *)
(* The program is one Dash callback, update_timing_graph, fired by five    *)
(* buttons and one checklist.  Its only stored state is the function       *)
(* attribute update_timing_graph.buffers; the setup-check flag is the      *)
(* value of the checklist component, handed to every call as an Input.     *)
(*                                                                         *)
(* Units.  Times are integers in picoseconds (0.001 ns) and the threshold  *)
(* factors are in tenths, so 0.5 ns * 0.7 is (500 * 7) \div 10 = 350.      *)
(* The source computes in binary floating point; the noise that adds       *)
(* (below 1e-14 ns for the chains considered) is under the resolution of   *)
(* this model.  round(x, 2) is modelled as rounding to a multiple of 10 ps.*)
(***************************************************************************)
EXTENDS Integers, Sequences, FiniteSets, TLC

\* ------------------------------------------------------------------------
\* Constants of the source (main.py:8-14) and of the waveform (main.py:100)
\* ------------------------------------------------------------------------
clk_period == 5000
buffer_delay == 500
lvt_factor == 7
hvt_factor == 13
flop_to_flop_base_delay == 0
setup_time_penalty == 200
launch_clock_delay == 0
time_step == 100
time_points == 101

\* ------------------------------------------------------------------------
\* Bounds of the model
\* ------------------------------------------------------------------------
\* Longest chain explored by the sequential specification, Spec.  Eight HVT
\* buffers (5200 ps) already violate the clock period; nine buffers reach
\* the boundary slack = 0 with the setup check on (7 * 500 + 2 * 650 = 4800).
MaxChain == 8
\* Longest chain explored by the specification without history, SpecDeep.
MaxDeep == 9
\* Longest chain explored by the threaded specification, SpecThreaded.
MaxChainT == 1

Threads == {1, 2}

\* Python's None as the value of the checklist, kept apart from the lists [] and
\* ["setup"] that the checklist holds once it has been clicked.
None == <<"None">>
ButtonIds == {"add-buffer", "add-lvt", "add-hvt", "remove-buffer", "reset"}
TriggerIds == ButtonIds \cup {"setup-check"}
AddIds == {"add-buffer", "add-lvt", "add-hvt"}

VARIABLES
    has_buffers,    \* hasattr(update_timing_graph, "buffers")
    buffers,        \* update_timing_graph.buffers: sequence of <<typ, delay>>
    setup_check,    \* value of the "setup-check" checklist: None, <<>> or <<"setup">>
    rows,           \* data of the report table returned by the last call
    arrival_time,   \* arrival_time of the last call
    required_time,  \* required_time of the last call
    slack,          \* slack of the last call
    verdict,        \* MET / VIOLATED in the summary returned by the last call
    launch_clock,   \* launch_clock list of the last call
    capture_clock,  \* capture_clock list of the last call
    last,           \* history: the last event, [id, enabled]
    before_add,     \* history: state and outputs before the last add, kept while that
                    \* add is the last call or has just been undone by a remove
    was_empty,      \* history: the chain was empty before the last call
    pc,             \* threaded server: position of each request thread
    t_id,           \* threaded server: ctx.triggered_id of the thread's request
    t_check,        \* threaded server: setup_check argument of the thread's request
    t_applied,      \* history: the chain the thread's own mutation produced
    t_rows,         \* threaded server: rows returned by the thread's request
    t_slack         \* threaded server: slack returned by the thread's request

progvars == <<has_buffers, buffers, setup_check, rows, arrival_time, required_time,
              slack, verdict, launch_clock, capture_clock>>
histvars == <<last, before_add, was_empty>>
thrvars == <<pc, t_id, t_check, t_applied, t_rows, t_slack>>
vars == <<has_buffers, buffers, setup_check, rows, arrival_time, required_time,
          slack, verdict, launch_clock, capture_clock, last, before_add, was_empty,
          pc, t_id, t_check, t_applied, t_rows, t_slack>>

\* ------------------------------------------------------------------------
\* Pure parts of update_timing_graph
\* ------------------------------------------------------------------------

\* round(x, 2) on a non-negative time: nearest multiple of 10 ps, ties to even.
Round2(x) ==
    LET q == x \div 10
        r == x % 10
    IN  IF r < 5 THEN 10 * q
        ELSE IF r > 5 THEN 10 * (q + 1)
        ELSE IF q % 2 = 0 THEN 10 * q ELSE 10 * (q + 1)

\* The tuple appended for each add button (main.py:67-72).
BufferEntry(tid) ==
    IF tid = "add-buffer" THEN <<"buffer", buffer_delay>>
    ELSE IF tid = "add-lvt" THEN <<"LVT", (buffer_delay * lvt_factor) \div 10>>
    ELSE <<"HVT", (buffer_delay * hvt_factor) \div 10>>

\* main.py:64-65: the list is created on the first call and replaced on reset.
ResetNeverClears(tid, has, bl) == IF ~has THEN <<>> ELSE bl
ResetBuffers(tid, has, bl) ==
    IF ~has \/ tid = "reset" THEN <<>> ELSE bl

\* main.py:67-74: append for the add buttons, pop for remove on a non-empty list.
MutatePopsHead(tid, bl) ==
    IF tid \in AddIds THEN Append(bl, BufferEntry(tid))
    ELSE IF tid = "remove-buffer" /\ bl # <<>> THEN Tail(bl)
    ELSE bl
MutateRemoveClears(tid, bl) ==
    IF tid \in AddIds THEN Append(bl, BufferEntry(tid))
    ELSE IF tid = "remove-buffer" /\ bl # <<>> THEN <<>>
    ELSE bl
MutatePrepends(tid, bl) ==
    IF tid \in AddIds THEN <<BufferEntry(tid)>> \o bl
    ELSE IF tid = "remove-buffer" /\ bl # <<>> THEN SubSeq(bl, 1, Len(bl) - 1)
    ELSE bl
Mutate(tid, bl) ==
    IF tid \in AddIds THEN Append(bl, BufferEntry(tid))
    ELSE IF tid = "remove-buffer" /\ bl # <<>> THEN SubSeq(bl, 1, Len(bl) - 1)
    ELSE bl

\* The callback has no Output on the checklist (main.py:47-59): whatever the
\* trigger, the checklist keeps the value it had.
CheckAfterClearedByAdd(tid, sc) == IF tid \in AddIds THEN <<>> ELSE sc
CheckAfter(tid, sc) == sc

\* The value the checklist takes when its only option, "setup", is ticked or
\* unticked (main.py:28-33).
ChecklistValue(enabled) == IF enabled THEN <<"setup">> ELSE <<>>

\* cumulative_delay after the first k buffers of the loop (main.py:78, 82-83).
RECURSIVE CumulativeDelay(_, _)
CumulativeDelayNotSummed(bl, k) == IF k = 0 THEN 0 ELSE bl[k][2]
CumulativeDelay(bl, k) ==
    IF k = 0 THEN 0 ELSE CumulativeDelay(bl, k - 1) + bl[k][2]

\* f"{typ} buffer{i+1}" for the 0-based loop index i = k - 1 (main.py:86).
InstanceZeroBased(typ, k) == [typ |-> typ, pos |-> k - 1]
Instance(typ, k) == [typ |-> typ, pos |-> k]

\* The "Instance" of the two fixed rows (main.py:80, 93).
StartFlop == [typ |-> "startflop", pos |-> 0]
EndFlop == [typ |-> "endflop", pos |-> 0]

\* main.py:84
Style(typ) ==
    IF typ = "LVT" THEN "color: red;"
    ELSE IF typ = "HVT" THEN "color: green;" ELSE ""

\* The rows list (main.py:78-93).
Rows(bl) ==
    <<[Instance |-> StartFlop, Inc |-> 0, Total |-> 0, Style |-> ""]>>
    \o [k \in 1..Len(bl) |->
          [Instance |-> Instance(bl[k][1], k),
           Inc |-> Round2(bl[k][2]),
           Total |-> Round2(CumulativeDelay(bl, k)),
           Style |-> Style(bl[k][1])]]
    \o <<[Instance |-> EndFlop, Inc |-> 0,
          Total |-> Round2(CumulativeDelay(bl, Len(bl)) + flop_to_flop_base_delay),
          Style |-> ""]>>

\* main.py:91, 95
ArrivalTime(bl) == CumulativeDelay(bl, Len(bl)) + flop_to_flop_base_delay

\* main.py:96: setup_check and "setup" in setup_check
SetupEnabled(sc) == sc # None /\ sc # <<>> /\ \E i \in 1..Len(sc) : sc[i] = "setup"
SetupPenalty(sc) == IF SetupEnabled(sc) THEN setup_time_penalty ELSE 0

\* main.py:97
RequiredTime(sc) == clk_period - SetupPenalty(sc)

\* main.py:98
Slack(bl, sc) == RequiredTime(sc) - ArrivalTime(bl)

\* main.py:170: 'MET' if slack >= 0 else 'VIOLATED'
VerdictStrict(s) == IF s > 0 THEN "MET" ELSE "VIOLATED"
Verdict(s) == IF s >= 0 THEN "MET" ELSE "VIOLATED"

\* main.py:100: time_range = [i * 0.1 for i in range(101)], here 1-indexed.
TimeRange == [i \in 1..time_points |-> (i - 1) * time_step]

\* main.py:101-102: 1 if (x % clk_period) < (clk_period / 2) else 0.
\* clk_period / 2 is a true division; 2 * (x % p) < p states it on integers.
\* Python's % has the sign of the divisor, as % here.
ClockLevelInclusive(x) == IF 2 * (x % clk_period) <= clk_period THEN 1 ELSE 0
ClockLevel(x) == IF 2 * (x % clk_period) < clk_period THEN 1 ELSE 0

LaunchClock == [i \in 1..time_points |-> ClockLevel(TimeRange[i] - launch_clock_delay)]
CaptureClock == [i \in 1..time_points |-> ClockLevel(TimeRange[i])]


\* ------------------------------------------------------------------------
\* Sequential specification: one call of update_timing_graph per step
\* ------------------------------------------------------------------------
NoSnapshot ==
    [valid |-> FALSE, called |-> FALSE, buffers |-> <<>>, setup_check |-> None,
     rows |-> <<>>, arrival_time |-> 0, required_time |-> 0, slack |-> 0]

\* Before the first call (prevent_initial_call=True, main.py:58) the function
\* has no buffers attribute, the checklist has no value and nothing is shown.
Init ==
    /\ has_buffers = FALSE
    /\ buffers = <<>>
    /\ setup_check = None
    /\ rows = <<>>
    /\ arrival_time = 0
    /\ required_time = 0
    /\ slack = 0
    /\ verdict = "none"
    /\ launch_clock = <<>>
    /\ capture_clock = <<>>
    /\ last = [id |-> "none", enabled |-> FALSE]
    /\ before_add = NoSnapshot
    /\ was_empty = TRUE
    /\ pc = [t \in Threads |-> "idle"]
    /\ t_id = [t \in Threads |-> "none"]
    /\ t_check = [t \in Threads |-> None]
    /\ t_applied = [t \in Threads |-> <<>>]
    /\ t_rows = [t \in Threads |-> <<>>]
    /\ t_slack = [t \in Threads |-> 0]

\* update_timing_graph called with ctx.triggered_id = tid while the checklist
\* holds sc (main.py:60-173): what it stores and what it returns.
Handler(tid, sc) ==
    LET bl == Mutate(tid, ResetBuffers(tid, has_buffers, buffers))
    IN  /\ has_buffers' = TRUE
        /\ buffers' = bl
        /\ setup_check' = CheckAfter(tid, sc)
        /\ rows' = Rows(bl)
        /\ arrival_time' = ArrivalTime(bl)
        /\ required_time' = RequiredTime(sc)
        /\ slack' = Slack(bl, sc)
        /\ verdict' = Verdict(Slack(bl, sc))
        /\ launch_clock' = LaunchClock
        /\ capture_clock' = CaptureClock

\* The history variables: the event, and what there was before it.
Record(tid, enabled) ==
    /\ last' = [id |-> tid, enabled |-> enabled]
    /\ before_add' =
          IF tid \in AddIds
          THEN [valid |-> TRUE, called |-> has_buffers, buffers |-> buffers,
                setup_check |-> setup_check, rows |-> rows,
                arrival_time |-> arrival_time, required_time |-> required_time,
                slack |-> slack]
          ELSE IF tid = "remove-buffer" /\ last.id \in AddIds THEN before_add
          ELSE NoSnapshot
    /\ was_empty' = (buffers = <<>>)

Callback(tid, sc, enabled) ==
    /\ Handler(tid, sc)
    /\ Record(tid, enabled)
    /\ UNCHANGED thrvars

AddBuffer == Len(buffers) < MaxChain /\ Callback("add-buffer", setup_check, FALSE)
AddLvt == Len(buffers) < MaxChain /\ Callback("add-lvt", setup_check, FALSE)
AddHvt == Len(buffers) < MaxChain /\ Callback("add-hvt", setup_check, FALSE)
RemoveBuffer == Callback("remove-buffer", setup_check, FALSE)
Reset == Callback("reset", setup_check, FALSE)
\* The user ticks or unticks the checklist; its new value fires the callback.
SetupCheck ==
    \E enabled \in BOOLEAN : Callback("setup-check", ChecklistValue(enabled), enabled)

Next == AddBuffer \/ AddLvt \/ AddHvt \/ RemoveBuffer \/ Reset \/ SetupCheck

Spec == Init /\ [][Next]_vars

\* ------------------------------------------------------------------------
\* The same program without the history variables, explored to longer chains
\* ------------------------------------------------------------------------
DeepCallback(tid, sc) ==
    /\ Handler(tid, sc)
    /\ UNCHANGED histvars
    /\ UNCHANGED thrvars

DeepAddBuffer == Len(buffers) < MaxDeep /\ DeepCallback("add-buffer", setup_check)
DeepAddLvt == Len(buffers) < MaxDeep /\ DeepCallback("add-lvt", setup_check)
DeepAddHvt == Len(buffers) < MaxDeep /\ DeepCallback("add-hvt", setup_check)
DeepRemoveBuffer == DeepCallback("remove-buffer", setup_check)
DeepReset == DeepCallback("reset", setup_check)
DeepSetupCheck ==
    \E enabled \in BOOLEAN : DeepCallback("setup-check", ChecklistValue(enabled))

NextDeep ==
    DeepAddBuffer \/ DeepAddLvt \/ DeepAddHvt \/ DeepRemoveBuffer \/ DeepReset
    \/ DeepSetupCheck

SpecDeep == Init /\ [][NextDeep]_vars

\* ------------------------------------------------------------------------
\* Threaded specification.  app.run(debug=True) (main.py:176) serves the app
\* with Flask's development server, which handles every request on a thread of
\* its own; update_timing_graph takes no lock, so a second request can run
\* between any two statements of a first.  Two points of each call are
\* modelled: the update of the shared list (main.py:61-74) and the read of
\* the shared list for the report (main.py:76-98).
\* ------------------------------------------------------------------------
Mutation(t) ==
    /\ pc[t] \in {"idle", "returned"}
    /\ \E tid \in TriggerIds, enabled \in BOOLEAN :
          LET sc == IF tid = "setup-check" THEN ChecklistValue(enabled) ELSE setup_check
              bl == Mutate(tid, ResetBuffers(tid, has_buffers, buffers))
          IN  /\ Len(bl) <= MaxChainT
              /\ has_buffers' = TRUE
              /\ buffers' = bl
              /\ setup_check' = CheckAfter(tid, sc)
              /\ t_id' = [t_id EXCEPT ![t] = tid]
              /\ t_check' = [t_check EXCEPT ![t] = sc]
              /\ t_applied' = [t_applied EXCEPT ![t] = bl]
    /\ pc' = [pc EXCEPT ![t] = "mutated"]
    /\ UNCHANGED <<rows, arrival_time, required_time, slack, verdict, launch_clock,
                   capture_clock, t_rows, t_slack>>
    /\ UNCHANGED histvars

Recompute(t) ==
    /\ pc[t] = "mutated"
    /\ t_rows' = [t_rows EXCEPT ![t] = Rows(buffers)]
    /\ t_slack' = [t_slack EXCEPT ![t] = Slack(buffers, t_check[t])]
    /\ pc' = [pc EXCEPT ![t] = "returned"]
    /\ UNCHANGED <<has_buffers, buffers, setup_check, rows, arrival_time,
                   required_time, slack, verdict, launch_clock, capture_clock,
                   t_id, t_check, t_applied>>
    /\ UNCHANGED histvars

NextThreaded == \E t \in Threads : Mutation(t) \/ Recompute(t)

SpecThreaded == Init /\ [][NextThreaded]_vars

\* ------------------------------------------------------------------------
\* Properties
\* ------------------------------------------------------------------------

\* What a call shows for an empty chain: the start flop and the end flop only.
FreshRows ==
    <<[Instance |-> [typ |-> "startflop", pos |-> 0], Inc |-> 0, Total |-> 0,
       Style |-> ""],
      [Instance |-> [typ |-> "endflop", pos |-> 0], Inc |-> 0,
       Total |-> flop_to_flop_base_delay, Style |-> ""]>>

\* The delay the catalog gives a variant.
CatalogDelay(typ) ==
    IF typ = "buffer" THEN buffer_delay
    ELSE IF typ = "LVT" THEN (buffer_delay * lvt_factor) \div 10
    ELSE (buffer_delay * hvt_factor) \div 10

\* The sum of the catalog delays of the first k buffers of the chain.
RECURSIVE SumCatalog(_, _)
SumCatalog(bl, k) ==
    IF k = 0 THEN 0 ELSE SumCatalog(bl, k - 1) + CatalogDelay(bl[k][1])

C2_AddThenRemoveRestores ==
    (last.id = "remove-buffer" /\ before_add.valid) =>
        /\ buffers = before_add.buffers
        /\ setup_check = before_add.setup_check
        /\ IF before_add.called
           THEN /\ rows = before_add.rows
                /\ arrival_time = before_add.arrival_time
                /\ required_time = before_add.required_time
                /\ slack = before_add.slack
           ELSE /\ rows = FreshRows
                /\ arrival_time = flop_to_flop_base_delay
                /\ required_time = clk_period
                /\ slack = clk_period - flop_to_flop_base_delay

\* C2 witness: an add undone by a remove on a chain of two different buffers
\* with the setup check on.
C2_Witness ==
    /\ last.id = "remove-buffer"
    /\ before_add.valid
    /\ before_add.called
    /\ Len(before_add.buffers) = 2
    /\ before_add.buffers[1][1] # before_add.buffers[2][1]
    /\ SetupEnabled(setup_check)

\* C3: RemoveLast on an empty chain changes nothing and completes with the
\* two-stage breakdown and arrival time flopToFlopBaseDelay; on a non-empty
\* chain it removes exactly the tail element.  The flag is unchanged.
C3_RemoveLast ==
    [][last'.id = "remove-buffer" =>
          /\ setup_check' = setup_check
          /\ IF buffers = <<>>
             THEN /\ buffers' = <<>>
                  /\ rows' = FreshRows
                  /\ arrival_time' = flop_to_flop_base_delay
                  /\ slack' = required_time' - arrival_time'
                  /\ verdict' \in {"MET", "VIOLATED"}
             ELSE /\ Len(buffers') = Len(buffers) - 1
                  /\ \A i \in 1..Len(buffers') : buffers'[i] = buffers[i]]_vars

\* C3 witness: a remove that found the chain empty.
C3_Witness ==
    /\ last.id = "remove-buffer"
    /\ was_empty
    /\ buffers = <<>>
    /\ rows = FreshRows
    /\ verdict = "MET"

\* C4: every step leaves the chain unchanged, appends one element at the tail
\* (an add), drops the tail (a remove) or empties it (a reset); the elements
\* that remain keep position, variant and delay.
C4_ChainChangesAtTailOnly ==
    [][\/ buffers' = buffers
       \/ /\ last'.id \in AddIds
          /\ Len(buffers') = Len(buffers) + 1
          /\ \A i \in 1..Len(buffers) : buffers'[i] = buffers[i]
       \/ /\ last'.id = "remove-buffer"
          /\ Len(buffers') = Len(buffers) - 1
          /\ \A i \in 1..Len(buffers') : buffers'[i] = buffers[i]
       \/ /\ last'.id = "reset"
          /\ buffers' = <<>>]_vars

\* C4 witness: a remove that left a chain of at least two different buffers.
C4_Witness ==
    /\ last.id = "remove-buffer"
    /\ ~before_add.valid
    /\ Len(buffers) >= 2
    /\ buffers[1] # buffers[2]

\* C5: a SetSetupCheck(enabled) event sets the flag to enabled and leaves the
\* chain, the stages and the arrival time unchanged; add and remove events
\* leave the flag unchanged.
C5_FlagAndChainIndependent ==
    [][/\ last'.id = "setup-check" =>
             /\ SetupEnabled(setup_check') <=> last'.enabled
             /\ buffers' = buffers
             /\ has_buffers => (rows' = rows /\ arrival_time' = arrival_time)
       /\ last'.id \in AddIds \cup {"remove-buffer"} =>
             setup_check' = setup_check]_vars

\* C5 witness: the setup check switched on over a chain of two buffers.
C5_Witness ==
    /\ last.id = "setup-check"
    /\ last.enabled
    /\ Len(buffers) >= 2
    /\ arrival_time > 0
    /\ SetupEnabled(setup_check)
    /\ required_time = clk_period - setup_time_penalty

\* C6: required time is clockPeriod less the setup penalty when the setup
\* check is on and clockPeriod otherwise, slack is required time less arrival
\* time, and the verdict is MET exactly when slack >= 0 and VIOLATED exactly
\* when slack < 0.
C6_SlackAndVerdict ==
    has_buffers =>
        /\ required_time =
              IF SetupEnabled(setup_check) THEN clk_period - setup_time_penalty
              ELSE clk_period
        /\ slack = required_time - arrival_time
        /\ verdict = "MET" <=> slack >= 0
        /\ verdict = "VIOLATED" <=> slack < 0

\* C6 witness: the boundary, slack = 0 with the setup check on, reported MET.
C6_Witness ==
    /\ has_buffers
    /\ SetupEnabled(setup_check)
    /\ slack = 0
    /\ verdict = "MET"

\* C7: the breakdown a request returns is computed from exactly the chain that
\* its own event produced from the chain it found, with no other event's
\* mutation between its mutation and its recomputation.
C7_HandledToCompletion ==
    \A t \in Threads :
        pc[t] = "returned" =>
            /\ t_rows[t] = Rows(t_applied[t])
            /\ t_slack[t] = Slack(t_applied[t], t_check[t])

\* C8: the cumulative delay never decreases along the stage list.
C8_CumulativeMonotonic ==
    \A i \in 2..Len(rows) : rows[i].Total >= rows[i - 1].Total

\* C8 witness: a chain where a fast buffer follows a slow one.
C8_Witness ==
    /\ Len(buffers) >= 3
    /\ buffers[1][1] = "HVT"
    /\ buffers[2][1] = "LVT"
    /\ rows[3].Total > rows[2].Total

\* C9: the breakdown has Len(chain) + 2 stages: the start flop with delays 0;
\* for k = 1..Len(chain) a stage labelled with the variant of chain[k] and the
\* position k, with the catalog delay of the variant as incremental delay and
\* the sum of the first k delays as cumulative delay; the end flop with
\* incremental delay 0 and cumulative delay the sum of all delays plus
\* flopToFlopBaseDelay, which is the arrival time.
C9_BreakdownFromWholeChain ==
    has_buffers =>
        /\ Len(rows) = Len(buffers) + 2
        /\ rows[1].Instance = [typ |-> "startflop", pos |-> 0]
        /\ rows[1].Inc = 0
        /\ rows[1].Total = 0
        /\ \A k \in 1..Len(buffers) :
              /\ rows[k + 1].Instance = [typ |-> buffers[k][1], pos |-> k]
              /\ buffers[k][2] = CatalogDelay(buffers[k][1])
              /\ rows[k + 1].Inc = CatalogDelay(buffers[k][1])
              /\ rows[k + 1].Total = SumCatalog(buffers, k)
        /\ rows[Len(rows)].Instance = [typ |-> "endflop", pos |-> 0]
        /\ rows[Len(rows)].Inc = 0
        /\ rows[Len(rows)].Total =
              SumCatalog(buffers, Len(buffers)) + flop_to_flop_base_delay
        /\ arrival_time = rows[Len(rows)].Total

\* C9 witness: LVT, HVT and normal buffers in one chain, 0.35 + 0.65 + 0.5 ns.
C9_Witness ==
    /\ Len(buffers) = 3
    /\ buffers[1][1] = "LVT"
    /\ buffers[2][1] = "HVT"
    /\ buffers[3][1] = "buffer"
    /\ rows[2].Inc = 350
    /\ rows[3].Total = 1000
    /\ arrival_time = 1500

\* C10: after every event the waveform has the 101 sample points 0, 0.1, ...,
\* 10.0 ns; the capture level at t is 1 if (t mod clockPeriod) < clockPeriod/2
\* and 0 otherwise, the launch level is the same function of
\* t - launchClockDelay with a non-negative remainder, both are periodic with
\* period clockPeriod, and with launchClockDelay = 0 they are equal at every
\* point and 1 at t = 0.
C10_Waveform ==
    has_buffers =>
        /\ Len(capture_clock) = 101
        /\ Len(launch_clock) = 101
        /\ \A i \in 1..101 :
              LET t == (i - 1) * 100
                  rc == t % clk_period
                  rl == (((t - launch_clock_delay) % clk_period) + clk_period) % clk_period
              IN  /\ capture_clock[i] = IF 2 * rc < clk_period THEN 1 ELSE 0
                  /\ launch_clock[i] = IF 2 * rl < clk_period THEN 1 ELSE 0
                  /\ launch_clock[i] = capture_clock[i]
        /\ \A i \in 1..51 :
              /\ capture_clock[i + 50] = capture_clock[i]
              /\ launch_clock[i + 50] = launch_clock[i]
        /\ launch_clock[1] = 1
        /\ capture_clock[1] = 1

\* C10 witness: a waveform returned for a non-empty chain with the setup check
\* on, low at 2.5 ns and high again at 5.0 ns.
C10_Witness ==
    /\ has_buffers
    /\ buffers # <<>>
    /\ SetupEnabled(setup_check)
    /\ capture_clock[25] = 1
    /\ capture_clock[26] = 0
    /\ launch_clock[50] = 0
    /\ launch_clock[51] = 1

====
